---- MODULE Spec2Model ----
(***************************************************************************)
(* Model of the UMICO catalogue scraper (src/scraper.py): the planner      *)
(* (get_total_pages), the retried page fetcher (fetch_page), the bounded   *)
(* fan-out of scrape_all_pages and the export of save_to_csv, as run by    *)
(* main().  The upstream HTTP service is the environment: it answers each  *)
(* request with a status fault, a timeout, a transport fault or a 200 body. *)
(***************************************************************************)
EXTENDS Integers, Sequences, FiniteSets, TLC

VARIABLES
    pc,               \* position of main() / scrape_all_pages
    catalog,          \* environment: number of items the upstream holds
    max_concurrent,   \* argument of scrape_all_pages
    semaphore,        \* free slots of asyncio.Semaphore(max_concurrent)
    total_pages,      \* first value returned by get_total_pages
    first_page_data,  \* second value returned by get_total_pages
    all_products,     \* self.all_products
    st,               \* per page: position of its fetch_page / worker
    attempt,          \* per page: loop variable of its running fetch_page
    result,           \* per page: value returned by fetch_page
    calls,            \* per page: fetch_page calls made so far
    csvfile,          \* the export artifact
    integrity,        \* verdict printed by verify_data_integrity
    probe             \* argument/result of a pure function under test

vars == <<pc, catalog, max_concurrent, semaphore, total_pages, first_page_data,
          all_products, st, attempt, result, calls, csvfile, integrity,
          probe>>

runvars == <<pc, catalog, max_concurrent, semaphore, total_pages,
             first_page_data, all_products, st, attempt, result, calls,
             csvfile, integrity>>

---------------------------------------------------------------------------
(* Program constants *)
per_page == 24
retries == 3

(* Bounds of the model *)
MaxPages == 3
MaxConcurrent == 2
MaxT == 100
MaxP == 25
MaxPrice == 20
MaxLabels == 2

Pages == 1..MaxPages

(* Sizes of the upstream catalogue: empty, one item past each full page,
   and MaxPages full pages: one size for every page count 0..MaxPages. *)
CatalogSizes ==
    {0} \cup {k * per_page + 1 : k \in 0..(MaxPages - 2)} \cup {MaxPages * per_page}

Min(a, b) == IF a < b THEN a ELSE b

---------------------------------------------------------------------------
(* JSON values of a response body *)
None == [kind |-> "None"]
JAbsent == [kind |-> "absent", val |-> 0]
JNull == [kind |-> "null", val |-> 0]
JInt(n) == [kind |-> "int", val |-> n]
MetaAbsent == [kind |-> "absent", total |-> JAbsent]
MetaNull == [kind |-> "null", total |-> JAbsent]
MetaDict(t) == [kind |-> "dict", total |-> t]
ProductsAbsent == [kind |-> "absent", items |-> <<>>]
ProductsNull == [kind |-> "null", items |-> <<>>]
ProductsList(s) == [kind |-> "list", items |-> s]
Body(m, p) == [kind |-> "dict", meta |-> m, products |-> p]

(* JSON values inside a product: text, booleans, decimal numbers (held in
   hundredths), lists and objects (a function from its keys) *)
JStr(s) == [kind |-> "str", val |-> s]
JBool(b) == [kind |-> "bool", val |-> b]
JNum(c) == [kind |-> "num", val |-> c]
JList(s) == [kind |-> "list", val |-> s]
JDict(f) == [kind |-> "dict", val |-> f]
EmptyDict == JDict(<<>>)
EmptyList == JList(<<>>)
NA == JStr("N/A")

(* A catalogue item as the upstream serves it in the run: its id alone *)
Item(n) == JDict("id" :> JInt(n))

(* The upstream's page p of a catalogue of T items, read `shift` positions
   early (the sort order moved between two requests). *)
Slice(p, T, shift) ==
    LET lo == (p - 1) * per_page + 1 - shift
        hi == Min(p * per_page - shift, T)
    IN  IF hi < lo THEN <<>> ELSE [i \in 1..(hi - lo + 1) |-> Item(lo + i - 1)]

(* The products a 200 body may carry: the page as catalogued, no products
   key, a null; an empty list on page 1; a page read one position early on
   the later pages. *)
ProductsOf(p) ==
    {ProductsAbsent, ProductsNull, ProductsList(Slice(p, catalog, 0))}
    \cup (IF p = 1 THEN {ProductsList(<<>>)} ELSE {ProductsList(Slice(p, catalog, 1))})

MetasOf(p) ==
    IF p = 1
    THEN {MetaDict(JInt(catalog)), MetaDict(JAbsent), MetaDict(JNull), MetaAbsent, MetaNull}
    ELSE {MetaAbsent}

Bodies(p) == {Body(m, pr) : m \in MetasOf(p), pr \in ProductsOf(p)}

(* What one session.get can end in. *)
Outcomes(p) ==
    {[kind |-> k, data |-> None] : k \in {"status", "timeout", "exception"}}
    \cup {[kind |-> "ok", data |-> b] : b \in Bodies(p)}

---------------------------------------------------------------------------
(* Pure helpers of the program *)

(* `'products' in d` on a value that is a dict or None *)
HasProducts(d) == d # None /\ d.products.kind # "absent"

(* `if d` : None and the empty dict are falsy *)
Truthy(d) == d # None /\ ~(d.meta.kind = "absent" /\ d.products.kind = "absent")

AttemptNeedsProducts(o) == o.kind = "ok" /\ o.data.products.kind = "list"

(* status 200, response.json() and the len() of the progress line all pass *)
AttemptSucceeds(o) == o.kind = "ok" /\ o.data.products.kind # "null"

MayRetryOnceMore(a) == a < retries

(* `if attempt < retries - 1` *)
MayRetry(a) == a < retries - 1

(* the handler of the loop body that ends a failed attempt: the else of
   the status test (lines 40-45), except asyncio.TimeoutError (46-51), or
   except Exception (52-57), which also takes what the 200 path raises *)
Handler(o) ==
    CASE o.kind = "status" -> "status"
      [] o.kind = "timeout" -> "timeout"
      [] OTHER -> "exception"

RetryAfterTimeoutOnly(o, a) == Handler(o) = "timeout" /\ MayRetry(a)

(* each handler's own test before its sleep: lines 42, 48 and 54 *)
RetryAfter(o, a) ==
    CASE Handler(o) = "status" -> MayRetry(a)
      [] Handler(o) = "timeout" -> MayRetry(a)
      [] Handler(o) = "exception" -> MayRetry(a)

TotalPagesFloor(total_products, pp) == total_products \div pp

(* (total_products + self.per_page - 1) // self.per_page *)
TotalPages(total_products, pp) == (total_products + pp - 1) \div pp

ExtendOverwrites(list, items) == items

ExtendDedup(list, items) ==
    list \o SelectSeq(items, LAMBDA x : \A k \in 1..Len(list) : list[k] # x)

ExtendAtFront(list, items) == items \o list

(* list.extend *)
Extend(list, items) == list \o items

MetaTotalDefaultsToOnePage(meta) ==
    IF meta.total.kind = "absent" THEN per_page ELSE meta.total.val

(* first_page['meta'].get('total', 0) *)
MetaTotal(meta) == IF meta.total.kind = "absent" THEN 0 ELSE meta.total.val

get_total_pages_assumes_one(first_page) ==
    IF Truthy(first_page) /\ first_page.meta.kind # "absent"
    THEN IF first_page.meta.kind = "null" \/ first_page.meta.total.kind = "null"
         THEN [raised |-> TRUE, total_pages |-> 0, data |-> None]
         ELSE [raised |-> FALSE,
               total_pages |-> TotalPages(MetaTotal(first_page.meta), per_page),
               data |-> first_page]
    ELSE [raised |-> FALSE, total_pages |-> 1, data |-> None]

(* get_total_pages once fetch_page(1) has returned first_page: the pair it
   returns, or raised = TRUE when the lookup or the arithmetic raises
   (meta is null: AttributeError; total is null: TypeError). *)
get_total_pages(first_page) ==
    IF Truthy(first_page) /\ first_page.meta.kind # "absent"
    THEN IF first_page.meta.kind = "null" \/ first_page.meta.total.kind = "null"
         THEN [raised |-> TRUE, total_pages |-> 0, data |-> None]
         ELSE [raised |-> FALSE,
               total_pages |-> TotalPages(MetaTotal(first_page.meta), per_page),
               data |-> first_page]
    ELSE [raised |-> FALSE, total_pages |-> 0, data |-> None]

PagesFromFirst(n) == 1..n

(* range(2, total_pages + 1) *)
PagesToFetch(n) == 2..n

(* the products one gathered result adds to the aggregate *)
Contribution(r) == IF Truthy(r) /\ HasProducts(r) THEN r.products.items ELSE <<>>

RECURSIVE CollectDescending(_, _, _)
CollectDescending(agg, p, n) ==
    IF p > n THEN agg
    ELSE CollectDescending(Extend(agg, Contribution(result[n])), p, n - 1)

(* the loop over results, in task order, starting at page p *)
RECURSIVE CollectFrom(_, _, _)
CollectFrom(agg, p, n) ==
    IF p > n THEN agg ELSE CollectFrom(Extend(agg, Contribution(result[p])), p + 1, n)

CanAcquireAlways(s) == TRUE

CanAcquireSpare(s) == s > 1

(* the semaphore admits a waiter only while a slot is free *)
CanAcquire(s) == s > 0

GatherStopsAtFirstFailure ==
    \/ \A p \in PagesToFetch(total_pages) : st[p] = "done"
    \/ \E p \in PagesToFetch(total_pages) : st[p] = "done" /\ result[p] = None

GatherNeedsEverySuccess ==
    \A p \in PagesToFetch(total_pages) : st[p] = "done" /\ result[p] # None

(* asyncio.gather returns once every task has returned *)
GatherDone == \A p \in PagesToFetch(total_pages) : st[p] = "done"

SeedNothing(agg, data) == agg

SeedAfresh(agg, data) == Contribution(data)

(* lines 82-83: page 1's products open the aggregate *)
SeedAggregate(agg, data) == Extend(agg, Contribution(data))

(* d.get(key, default) on a dict d *)
Get(d, key, default) == IF key \in DOMAIN d.val THEN d.val[key] ELSE default

(* the value has a .get method: only a dict does *)
HasGet(v) == v.kind = "dict"

(* len(v) is defined: None, numbers and booleans have no len() *)
HasLen(v) == v.kind \in {"list", "dict", "str"}

PyLen(v) ==
    CASE v.kind = "list" -> Len(v.val)
      [] v.kind = "dict" -> Cardinality(DOMAIN v.val)
      [] OTHER -> Len(v.val)

(* `not v` : the falsy values of Python *)
Falsy(v) ==
    \/ v.kind = "null"
    \/ v.kind \in {"list", "dict"} /\ DOMAIN v.val = {}
    \/ v.kind = "str" /\ v.val = ""
    \/ v.kind \in {"int", "num"} /\ v.val = 0
    \/ v.kind = "bool" /\ ~v.val

(* the value takes part in -, / and > with a number *)
IsNumber(v) == v.kind \in {"int", "num", "bool"}

(* a number in hundredths *)
Cents(v) ==
    CASE v.kind = "int" -> v.val * 100
      [] v.kind = "num" -> v.val
      [] OTHER -> IF v.val THEN 100 ELSE 0

(* str() of a float held in hundredths: 2500 is 25.0, 3333 is 33.33 *)
NumText(c) ==
    LET a == IF c < 0 THEN 0 - c ELSE c
        fr == a % 100
    IN  (IF c < 0 THEN "-" ELSE "") \o ToString(a \div 100) \o "." \o
        (IF fr % 10 = 0 THEN ToString(fr \div 10)
         ELSE IF fr < 10 THEN "0" \o ToString(fr) ELSE ToString(fr))

(* str(v); inside a container strings are quoted. A dict of more than
   one key is written in its insertion order, which a function does not
   keep: the inputs drawn carry one key at most. *)
RECURSIVE PyText(_, _)
PyText(v, quoted) ==
    LET RECURSIVE Items(_)
        Items(s) == IF Len(s) = 0 THEN ""
                    ELSE IF Len(s) = 1 THEN PyText(s[1], TRUE)
                    ELSE PyText(s[1], TRUE) \o ", " \o Items(Tail(s))
    IN  CASE v.kind = "str" -> IF quoted THEN "'" \o v.val \o "'" ELSE v.val
          [] v.kind = "int" -> ToString(v.val)
          [] v.kind = "num" -> NumText(v.val)
          [] v.kind = "bool" -> IF v.val THEN "True" ELSE "False"
          [] v.kind = "null" -> "None"
          [] v.kind = "list" -> "[" \o Items(v.val) \o "]"
          [] OTHER -> IF DOMAIN v.val = {} THEN "{}"
                      ELSE LET k == CHOOSE x \in DOMAIN v.val : TRUE
                           IN  "{'" \o k \o "': " \o PyText(v.val[k], TRUE) \o "}"

PyStr(v) == PyText(v, FALSE)

(* what calling .get on a value without that method raises *)
AttributeError == [kind |-> "raise", val |-> 0]

RECURSIVE safe_get_unguarded(_, _, _)
safe_get_unguarded(obj, keys, default) ==
    IF keys = <<>>
    THEN IF obj.kind = "str" /\ obj.val = "" THEN default ELSE obj
    ELSE IF obj.kind = "dict"
         THEN LET v == Get(obj, keys[1], JNull)
              IN  IF v.kind = "null" THEN default
                  ELSE safe_get_unguarded(v, Tail(keys), default)
         ELSE AttributeError

(* safe_get, lines 106-115: the default when a level is not a dict, when
   a value is missing or None, and when the final value is '' *)
RECURSIVE safe_get(_, _, _)
safe_get(obj, keys, default) ==
    IF keys = <<>>
    THEN IF obj.kind = "str" /\ obj.val = "" THEN default ELSE obj
    ELSE IF obj.kind = "dict"
         THEN LET v == Get(obj, keys[1], JNull)
              IN  IF v.kind = "null" THEN default
                  ELSE safe_get(v, Tail(keys), default)
         ELSE default

(* label.get('name', label.get('id', label)) for a dict, the label
   itself otherwise; then str() *)
LabelName(label) ==
    IF label.kind = "dict"
    THEN PyStr(Get(label, "name", Get(label, "id", label)))
    ELSE PyStr(label)

RECURSIVE Join(_)
Join(names) ==
    IF Len(names) = 0 THEN ""
    ELSE IF Len(names) = 1 THEN names[1]
    ELSE names[1] \o ", " \o Join(Tail(names))

_format_labels_first_only(labels) ==
    IF Falsy(labels) THEN "N/A" ELSE LabelName(labels.val[1])

(* _format_labels, lines 117-128, on a list, None or an empty value *)
_format_labels(labels) ==
    IF Falsy(labels) THEN "N/A"
    ELSE Join([i \in 1..Len(labels.val) |-> LabelName(labels.val[i])])

MinusMagnitude(a, b) ==
    IF Cents(a) < Cents(b) THEN JNum(Cents(b) - Cents(a)) ELSE JNum(Cents(a) - Cents(b))

(* round(a - b, 2): an int when both are ints *)
Minus(a, b) ==
    IF a.kind = "num" \/ b.kind = "num"
    THEN JNum(Cents(a) - Cents(b))
    ELSE JInt((Cents(a) - Cents(b)) \div 100)

(* n / d rounded to the nearest integer, ties to even, d > 0 *)
RoundDiv(n, d) ==
    LET q == n \div d
        r == n - q * d
    IN  IF 2 * r < d THEN q
        ELSE IF 2 * r > d THEN q + 1
        ELSE IF q % 2 = 0 THEN q ELSE q + 1

(* line 183: round(((old - retail) / divisor) * 100, 2) if old > 0
   else 0, in hundredths of a percent *)
Percentage(old, retail, divisor) ==
    IF Cents(old) > 0
    THEN JNum(RoundDiv((Cents(old) - Cents(retail)) * 10000, Cents(divisor)))
    ELSE JInt(0)

Raised == [raised |-> TRUE, flat |-> <<>>]

(* flatten_product, lines 130-201. The result is the FlatRecord, or the
   exception the body runs into: .get on a default_offer or seller that
   is not a dict, arithmetic on a price that is not a number, len() of
   labels that have none *)
flatten_product(product) ==
    LET default_offer == Get(product, "default_offer", EmptyDict)
        seller == IF HasGet(default_offer)
                  THEN Get(default_offer, "seller", EmptyDict) ELSE JNull
        marketing_name == IF HasGet(seller)
                          THEN Get(seller, "marketing_name", EmptyDict) ELSE JNull
        logo == IF HasGet(seller) THEN Get(seller, "logo", EmptyDict) ELSE JNull
        category == Get(product, "category", EmptyDict)
        main_img == Get(product, "main_img", EmptyDict)
        ratings == Get(product, "ratings", EmptyDict)
        old == safe_get(default_offer, <<"old_price">>, JInt(0))
        retail == safe_get(default_offer, <<"retail_price">>, JInt(0))
        old_divisor == safe_get(default_offer, <<"old_price">>, JInt(1))
        product_labels == Get(product, "product_labels", EmptyList)
        offer_labels == IF HasGet(default_offer)
                        THEN Get(default_offer, "product_offer_labels", EmptyList)
                        ELSE JNull
    IN  IF \/ ~HasGet(default_offer)
           \/ ~HasGet(seller)
           \/ ~IsNumber(old) \/ ~IsNumber(retail)
           \/ ~HasLen(product_labels)
           \/ ~HasLen(offer_labels)
        THEN Raised
        ELSE [raised |-> FALSE, flat |->
            [product_id |-> safe_get(product, <<"id">>, JNull),
             name |-> safe_get(product, <<"name">>, NA),
             slugged_name |-> safe_get(product, <<"slugged_name">>, NA),
             status |-> safe_get(product, <<"status">>, JStr("unknown")),
             avail_check |-> safe_get(product, <<"avail_check">>, JBool(FALSE)),
             min_qty |-> safe_get(product, <<"min_qty">>, JInt(1)),
             preorder_available |-> safe_get(product, <<"preorder_available">>, JBool(FALSE)),
             brand |-> safe_get(product, <<"brand">>, NA),
             category_id |-> safe_get(product, <<"category_id">>, JNull),
             category_name |-> safe_get(category, <<"name">>, NA),
             category_nested_id |-> safe_get(category, <<"id">>, JNull),
             img_big |-> safe_get(main_img, <<"big">>, NA),
             img_medium |-> safe_get(main_img, <<"medium">>, NA),
             img_small |-> safe_get(main_img, <<"small">>, NA),
             rating_value |-> safe_get(ratings, <<"rating_value">>, JInt(0)),
             rating_session_count |-> safe_get(ratings, <<"session_count">>, JInt(0)),
             rating_assessment_id |-> safe_get(ratings, <<"assessment_id">>, JInt(0)),
             offer_uuid |-> safe_get(default_offer, <<"uuid">>, NA),
             installment_enabled |-> safe_get(default_offer, <<"installment_enabled">>, JBool(FALSE)),
             max_installment_months |-> safe_get(default_offer, <<"max_installment_months">>, JInt(0)),
             old_price |-> safe_get(default_offer, <<"old_price">>, JInt(0)),
             retail_price |-> safe_get(default_offer, <<"retail_price">>, JInt(0)),
             offer_avail_check |-> safe_get(default_offer, <<"avail_check">>, JBool(FALSE)),
             stock_qty_threshold |-> safe_get(default_offer, <<"show_stock_qty_threshold">>, JInt(0)),
             discount_start_date |-> safe_get(default_offer, <<"discount_effective_start_date">>, NA),
             discount_end_date |-> safe_get(default_offer, <<"discount_effective_end_date">>, NA),
             qty |-> safe_get(default_offer, <<"qty">>, JInt(0)),
             has_discount |-> JBool(Cents(old) > Cents(retail)),
             discount_amount |-> Minus(old, retail),
             discount_percentage |-> Percentage(old, retail, old_divisor),
             seller_ext_id |-> safe_get(seller, <<"ext_id">>, NA),
             seller_name |-> safe_get(marketing_name, <<"name">>, NA),
             seller_marketing_name_id |-> safe_get(marketing_name, <<"id">>, JNull),
             seller_logo |-> safe_get(logo, <<"thumbnail">>, NA),
             seller_vat_payer |-> safe_get(seller, <<"vat_payer">>, JBool(FALSE)),
             seller_rating |-> safe_get(seller, <<"rating">>, JInt(0)),
             seller_role |-> safe_get(seller, <<"role_name">>, NA),
             product_labels_count |-> JInt(PyLen(product_labels)),
             product_labels |-> JStr(_format_labels(product_labels)),
             offer_labels_count |-> JInt(PyLen(offer_labels)),
             offer_labels |-> JStr(_format_labels(offer_labels))]]

(* The items the upstream of the run can serve, and flatten_product on
   each of them, worked out once *)
RunItems == {Item(n) : n \in 0..(MaxPages * per_page)}

FlatOf == [r \in RunItems |-> flatten_product(r)]

(* flattened_products of save_to_csv, line 210: flatten_product of every
   product; one that raises ends save_to_csv there *)
FlattenAll(products) ==
    [i \in 1..Len(products) |->
        IF products[i] \in RunItems THEN FlatOf[products[i]]
        ELSE flatten_product(products[i])]

Flats(results) == [i \in 1..Len(results) |-> results[i].flat]

---------------------------------------------------------------------------
(* Initial state: a fresh UmicoScraper, nothing requested yet *)

AnyRaised(results) == \E i \in 1..Len(results) : results[i].raised

(* all_keys of save_to_csv, lines 213-215 *)
AllKeys(flats) == UNION {DOMAIN flats[i] : i \in 1..Len(flats)}

(* the characters of a field name, as code points *)
Spelling ==
    [product_id |-> <<112, 114, 111, 100, 117, 99, 116, 95, 105, 100>>,
     name |-> <<110, 97, 109, 101>>,
     slugged_name |-> <<115, 108, 117, 103, 103, 101, 100, 95, 110, 97, 109, 101>>,
     status |-> <<115, 116, 97, 116, 117, 115>>,
     avail_check |-> <<97, 118, 97, 105, 108, 95, 99, 104, 101, 99, 107>>,
     min_qty |-> <<109, 105, 110, 95, 113, 116, 121>>,
     preorder_available |-> <<112, 114, 101, 111, 114, 100, 101, 114, 95, 97, 118, 97, 105, 108, 97, 98, 108, 101>>,
     brand |-> <<98, 114, 97, 110, 100>>,
     category_id |-> <<99, 97, 116, 101, 103, 111, 114, 121, 95, 105, 100>>,
     category_name |-> <<99, 97, 116, 101, 103, 111, 114, 121, 95, 110, 97, 109, 101>>,
     category_nested_id |-> <<99, 97, 116, 101, 103, 111, 114, 121, 95, 110, 101, 115, 116, 101, 100, 95, 105, 100>>,
     img_big |-> <<105, 109, 103, 95, 98, 105, 103>>,
     img_medium |-> <<105, 109, 103, 95, 109, 101, 100, 105, 117, 109>>,
     img_small |-> <<105, 109, 103, 95, 115, 109, 97, 108, 108>>,
     rating_value |-> <<114, 97, 116, 105, 110, 103, 95, 118, 97, 108, 117, 101>>,
     rating_session_count |-> <<114, 97, 116, 105, 110, 103, 95, 115, 101, 115, 115, 105, 111, 110, 95, 99, 111, 117, 110, 116>>,
     rating_assessment_id |-> <<114, 97, 116, 105, 110, 103, 95, 97, 115, 115, 101, 115, 115, 109, 101, 110, 116, 95, 105, 100>>,
     offer_uuid |-> <<111, 102, 102, 101, 114, 95, 117, 117, 105, 100>>,
     installment_enabled |-> <<105, 110, 115, 116, 97, 108, 108, 109, 101, 110, 116, 95, 101, 110, 97, 98, 108, 101, 100>>,
     max_installment_months |-> <<109, 97, 120, 95, 105, 110, 115, 116, 97, 108, 108, 109, 101, 110, 116, 95, 109, 111, 110, 116, 104, 115>>,
     old_price |-> <<111, 108, 100, 95, 112, 114, 105, 99, 101>>,
     retail_price |-> <<114, 101, 116, 97, 105, 108, 95, 112, 114, 105, 99, 101>>,
     offer_avail_check |-> <<111, 102, 102, 101, 114, 95, 97, 118, 97, 105, 108, 95, 99, 104, 101, 99, 107>>,
     stock_qty_threshold |-> <<115, 116, 111, 99, 107, 95, 113, 116, 121, 95, 116, 104, 114, 101, 115, 104, 111, 108, 100>>,
     discount_start_date |-> <<100, 105, 115, 99, 111, 117, 110, 116, 95, 115, 116, 97, 114, 116, 95, 100, 97, 116, 101>>,
     discount_end_date |-> <<100, 105, 115, 99, 111, 117, 110, 116, 95, 101, 110, 100, 95, 100, 97, 116, 101>>,
     qty |-> <<113, 116, 121>>,
     has_discount |-> <<104, 97, 115, 95, 100, 105, 115, 99, 111, 117, 110, 116>>,
     discount_amount |-> <<100, 105, 115, 99, 111, 117, 110, 116, 95, 97, 109, 111, 117, 110, 116>>,
     discount_percentage |-> <<100, 105, 115, 99, 111, 117, 110, 116, 95, 112, 101, 114, 99, 101, 110, 116, 97, 103, 101>>,
     seller_ext_id |-> <<115, 101, 108, 108, 101, 114, 95, 101, 120, 116, 95, 105, 100>>,
     seller_name |-> <<115, 101, 108, 108, 101, 114, 95, 110, 97, 109, 101>>,
     seller_marketing_name_id |-> <<115, 101, 108, 108, 101, 114, 95, 109, 97, 114, 107, 101, 116, 105, 110, 103, 95, 110, 97, 109, 101, 95, 105, 100>>,
     seller_logo |-> <<115, 101, 108, 108, 101, 114, 95, 108, 111, 103, 111>>,
     seller_vat_payer |-> <<115, 101, 108, 108, 101, 114, 95, 118, 97, 116, 95, 112, 97, 121, 101, 114>>,
     seller_rating |-> <<115, 101, 108, 108, 101, 114, 95, 114, 97, 116, 105, 110, 103>>,
     seller_role |-> <<115, 101, 108, 108, 101, 114, 95, 114, 111, 108, 101>>,
     product_labels_count |-> <<112, 114, 111, 100, 117, 99, 116, 95, 108, 97, 98, 101, 108, 115, 95, 99, 111, 117, 110, 116>>,
     product_labels |-> <<112, 114, 111, 100, 117, 99, 116, 95, 108, 97, 98, 101, 108, 115>>,
     offer_labels_count |-> <<111, 102, 102, 101, 114, 95, 108, 97, 98, 101, 108, 115, 95, 99, 111, 117, 110, 116>>,
     offer_labels |-> <<111, 102, 102, 101, 114, 95, 108, 97, 98, 101, 108, 115>>]

(* str < str of Python: by code point, a proper prefix first *)
LexLess(a, b) ==
    \E i \in 1..Len(b) :
        /\ i <= Len(a) + 1
        /\ \A j \in 1..(i - 1) : a[j] = b[j]
        /\ (i = Len(a) + 1 \/ a[i] < b[i])

SortedDescending(keys) ==
    LET RECURSIVE Rest(_)
        Rest(S) ==
            IF S = {} THEN <<>>
            ELSE LET k == CHOOSE x \in S :
                              \A y \in S \ {x} : LexLess(Spelling[y], Spelling[x])
                 IN  <<k>> \o Rest(S \ {k})
    IN  Rest(keys)

(* sorted(list(all_keys)), line 217 *)
Sorted(keys) ==
    LET RECURSIVE Rest(_)
        Rest(S) ==
            IF S = {} THEN <<>>
            ELSE LET k == CHOOSE x \in S :
                              \A y \in S \ {x} : LexLess(Spelling[x], Spelling[y])
                 IN  <<k>> \o Rest(S \ {k})
    IN  Rest(keys)

(* a cell as csv.writer writes it: None as the empty string, str() of
   everything else *)
CsvCell(v) == IF v.kind = "null" THEN "" ELSE PyStr(v)

(* DictWriter.writerow: the values in fieldnames order, restval '' *)
Row(flat, fieldnames) ==
    [j \in 1..Len(fieldnames) |->
        IF fieldnames[j] \in DOMAIN flat THEN CsvCell(flat[fieldnames[j]]) ELSE ""]

NoFile == [exists |-> FALSE, header |-> <<>>, rows |-> <<>>]

(* The sorted names of the fields flatten_product returns, and the row
   of each item of the run under them, worked out once *)
SortedFieldNames == Sorted(DOMAIN Spelling)

RowOf == [flat \in {FlatOf[r].flat : r \in RunItems} |-> Row(flat, SortedFieldNames)]

(* fieldnames of save_to_csv, lines 213-217 *)
FieldNames(flats) ==
    IF AllKeys(flats) = DOMAIN Spelling THEN SortedFieldNames
    ELSE Sorted(AllKeys(flats))

(* lines 220-223: the header, then one row per flattened record *)
WriteRows(flats, fieldnames) ==
    [exists |-> TRUE, header |-> fieldnames,
     rows |-> [i \in 1..Len(flats) |->
                 IF fieldnames = SortedFieldNames /\ flats[i] \in DOMAIN RowOf
                 THEN RowOf[flats[i]]
                 ELSE Row(flats[i], fieldnames)]]

(* lines 213-223: the file of the flattened records *)
WriteCsv(flats) == WriteRows(flats, FieldNames(flats))

verify_counts_header(file, products) ==
    IF Len(file.rows) + 1 = Len(products) THEN "ok" ELSE "mismatch"

(* verify_data_integrity, lines 232-245: the rows DictReader yields
   against len(self.all_products); the verdict is what it prints *)
verify_data_integrity(file, products) ==
    IF Len(file.rows) = Len(products) THEN "ok" ELSE "mismatch"

RollBackOnMismatch(file, verdict) == IF verdict = "mismatch" THEN NoFile ELSE file

(* the artifact after verify_data_integrity: the file is opened for
   reading only *)
AfterVerify(file, verdict) == file

(* What a cut of the file after the write leaves: nothing, the header,
   all rows but the last, or the last row cut short *)
Truncations(file) ==
    LET n == Len(file.rows)
    IN  {[file EXCEPT !.header = <<>>, !.rows = <<>>],
         [file EXCEPT !.rows = <<>>],
         [file EXCEPT !.rows = SubSeq(file.rows, 1, n - 1)],
         [file EXCEPT !.rows[n] = SubSeq(file.rows[n], 1, 1)]}

InitRun ==
    /\ pc = "start"
    /\ catalog \in CatalogSizes
    /\ max_concurrent = 0
    /\ semaphore = 0
    /\ total_pages = 0
    /\ first_page_data = None
    /\ all_products = <<>>
    /\ st = [p \in Pages |-> "idle"]
    /\ attempt = [p \in Pages |-> 0]
    /\ result = [p \in Pages |-> None]
    /\ calls = [p \in Pages |-> 0]
    /\ csvfile = NoFile
    /\ integrity = "none"

NoProbe == [T |-> 0, P |-> 1, ret |-> -1]

Init == InitRun /\ probe = NoProbe

(* main() calls scrape_all_pages(max_concurrent), which calls
   get_total_pages, which calls fetch_page(session, 1): first request out *)
Start ==
    /\ pc = "start"
    /\ \E m \in 1..MaxConcurrent : max_concurrent' = m
    /\ pc' = "fetch_first"
    /\ st' = [st EXCEPT ![1] = "request"]
    /\ attempt' = [attempt EXCEPT ![1] = 0]
    /\ calls' = [calls EXCEPT ![1] = 1]
    /\ UNCHANGED <<catalog, semaphore, total_pages, first_page_data,
                   all_products, result, csvfile, integrity, probe>>

(* fetch_page, lines 35-57: one request ends and the loop body handles it;
   when fetch_page returns, its loop variable is gone *)
Respond(p) ==
    /\ st[p] = "request"
    /\ \E o \in Outcomes(p) :
         IF AttemptSucceeds(o)
         THEN /\ result' = [result EXCEPT ![p] = o.data]
              /\ st' = [st EXCEPT ![p] = "returned"]
              /\ attempt' = [attempt EXCEPT ![p] = 0]
         ELSE IF RetryAfter(o, attempt[p])
              THEN /\ st' = [st EXCEPT ![p] = "sleep"]
                   /\ UNCHANGED <<result, attempt>>
              ELSE /\ result' = [result EXCEPT ![p] = None]
                   /\ st' = [st EXCEPT ![p] = "returned"]
                   /\ attempt' = [attempt EXCEPT ![p] = 0]
    /\ UNCHANGED <<pc, catalog, max_concurrent, semaphore, total_pages,
                   first_page_data, all_products, calls, csvfile, integrity,
                   probe>>

(* fetch_page: asyncio.sleep(2) is over, `continue`, next session.get *)
RetryWake(p) ==
    /\ st[p] = "sleep"
    /\ st' = [st EXCEPT ![p] = "request"]
    /\ attempt' = [attempt EXCEPT ![p] = attempt[p] + 1]
    /\ UNCHANGED <<pc, catalog, max_concurrent, semaphore, total_pages,
                   first_page_data, all_products, result, calls, csvfile,
                   integrity, probe>>

(* get_total_pages, lines 63-69, after fetch_page(1) returned *)
GetTotalPages ==
    /\ pc = "fetch_first"
    /\ st[1] = "returned"
    /\ LET r == get_total_pages(result[1])
       IN  IF r.raised
           THEN /\ pc' = "crashed"
                /\ UNCHANGED <<total_pages, first_page_data>>
           ELSE /\ pc' = "check_total"
                /\ total_pages' = r.total_pages
                /\ first_page_data' = r.data
    /\ st' = [st EXCEPT ![1] = "done"]
    /\ UNCHANGED <<catalog, max_concurrent, semaphore, all_products, attempt,
                   result, calls, csvfile, integrity, probe>>

(* scrape_all_pages, lines 77-97: the zero check, seeding with page 1, the
   semaphore, one task per remaining page, and the await of gather *)
Schedule ==
    /\ pc = "check_total"
    /\ IF total_pages = 0
       THEN /\ pc' = "returned_early"
            /\ UNCHANGED <<semaphore, all_products, st, calls>>
       ELSE /\ pc' = "gather"
            /\ all_products' = SeedAggregate(all_products, first_page_data)
            /\ semaphore' = max_concurrent
            /\ st' = [p \in Pages |->
                        IF p \in PagesToFetch(total_pages) THEN "waiting" ELSE st[p]]
            /\ calls' = [p \in Pages |->
                        IF p \in PagesToFetch(total_pages) THEN calls[p] + 1 ELSE calls[p]]
    /\ UNCHANGED <<catalog, max_concurrent, total_pages, first_page_data,
                   attempt, result, csvfile, integrity, probe>>

(* fetch_with_semaphore: the semaphore is acquired and fetch_page(page)
   issues its first request *)
Acquire(p) ==
    /\ pc = "gather"
    /\ st[p] = "waiting"
    /\ CanAcquire(semaphore)
    /\ semaphore' = semaphore - 1
    /\ st' = [st EXCEPT ![p] = "request"]
    /\ attempt' = [attempt EXCEPT ![p] = 0]
    /\ UNCHANGED <<pc, catalog, max_concurrent, total_pages, first_page_data,
                   all_products, result, calls, csvfile, integrity, probe>>

PacingOverInTurn(p) == st[p] = "returned" /\ \A q \in 2..(p - 1) : st[q] = "done"

(* line 92: the worker's own fetch_page has returned and its sleep(0.1),
   started at once, expires *)
PacingOver(p) == st[p] = "returned"

(* fetch_with_semaphore: asyncio.sleep(0.1) is over, the semaphore is
   released and the task returns its data *)
PaceDone(p) ==
    /\ pc = "gather"
    /\ p # 1
    /\ PacingOver(p)
    /\ semaphore' = semaphore + 1
    /\ st' = [st EXCEPT ![p] = "done"]
    /\ UNCHANGED <<pc, catalog, max_concurrent, total_pages, first_page_data,
                   all_products, attempt, result, calls, csvfile,
                   integrity, probe>>

(* scrape_all_pages, lines 97-104: gather returns, the results are added
   in task order, the function returns *)
Collect ==
    /\ pc = "gather"
    /\ GatherDone
    /\ all_products' = CollectFrom(all_products, 2, total_pages)
    /\ pc' = "scraped"
    /\ UNCHANGED <<catalog, max_concurrent, semaphore, total_pages,
                   first_page_data, st, attempt, result, calls,
                   csvfile, integrity, probe>>

TruncatedOnOpen(file) == [exists |-> TRUE, header |-> <<>>, rows |-> <<>>]

(* lines 205-207: save_to_csv returns before the file is opened *)
AfterNoProducts(file) == file

FlattenedInPlace(products) == <<>>

(* line 210: the comprehension reads self.all_products and builds a new
   list; flatten_product only reads the record it is given *)
AfterFlattening(products) == products

(* main, line 261: save_to_csv up to the end of its write, lines
   203-227: nothing to save, an exception out of flatten_product, or the
   file written and closed *)
SaveToCsv ==
    /\ pc \in {"scraped", "returned_early"}
    /\ IF all_products = <<>>
       THEN pc' = "done" /\ csvfile' = AfterNoProducts(csvfile)
       ELSE \E results \in {FlattenAll(all_products)} :
                IF AnyRaised(results)
                THEN pc' = "crashed" /\ csvfile' = csvfile
                ELSE \E fieldnames \in {FieldNames(Flats(results))} :
                        /\ pc' = "verify"
                        /\ csvfile' = WriteRows(Flats(results), fieldnames)
    /\ all_products' = AfterFlattening(all_products)
    /\ UNCHANGED <<catalog, max_concurrent, semaphore, total_pages,
                   first_page_data, st, attempt, result,
                   calls, integrity, probe>>

(* save_to_csv, line 230: verify_data_integrity re-opens the file,
   counts its rows and prints its verdict; save_to_csv and main return *)
VerifyDataIntegrity ==
    /\ pc = "verify"
    /\ LET verdict == verify_data_integrity(csvfile, all_products)
       IN  /\ integrity' = verdict
           /\ csvfile' = AfterVerify(csvfile, verdict)
    /\ pc' = "done"
    /\ UNCHANGED <<catalog, max_concurrent, semaphore, total_pages,
                   first_page_data, all_products, st, attempt, result,
                   calls, probe>>

(* Outside the program: the file is cut short between its write and its
   re-read *)
Truncate ==
    /\ pc = "verify"
    /\ \E f \in Truncations(csvfile) : f # csvfile /\ csvfile' = f
    /\ UNCHANGED <<pc, catalog, max_concurrent, semaphore, total_pages,
                   first_page_data, all_products, st, attempt, result,
                   calls, integrity, probe>>

Next ==
    \/ Start
    \/ \E p \in Pages : Respond(p)
    \/ \E p \in Pages : RetryWake(p)
    \/ GetTotalPages
    \/ Schedule
    \/ \E p \in Pages : Acquire(p)
    \/ \E p \in Pages : PaceDone(p)
    \/ Collect
    \/ SaveToCsv
    \/ VerifyDataIntegrity

Spec == Init /\ [][Next]_vars

(* The run with a file that may be cut short before it is re-read *)
SpecTamper == Init /\ [][Next \/ Truncate]_vars

(* The event loop runs every task that is ready, and every request ends
   (response, fault or the 30 s timeout) and every sleep expires. *)
FairSpec == Spec /\ WF_vars(Next)

---------------------------------------------------------------------------
(* The page-count computation on its own, over a range of inputs *)
InitPlanner ==
    /\ InitRun
    /\ catalog = 0
    /\ probe \in [T : 0..MaxT, P : 1..MaxP, ret : {-1}]

ApplyTotalPages ==
    /\ probe.ret = -1
    /\ probe' = [probe EXCEPT !.ret = TotalPages(probe.T, probe.P)]
    /\ UNCHANGED runvars

SpecPlanner == InitPlanner /\ [][ApplyTotalPages]_vars

---------------------------------------------------------------------------
(* RawRecords for flatten_product on its own *)

(* an object from <<key, value>> pairs; a pair whose value is JAbsent
   leaves the key out *)
Obj(pairs) ==
    LET present == {i \in 1..Len(pairs) : pairs[i][2].kind # "absent"}
    IN  JDict([k \in {pairs[i][1] : i \in present} |->
                  pairs[CHOOSE i \in present : pairs[i][1] = k][2]])

(* prices as the upstream may send them: missing, null, empty, whole
   amounts, 19.75 and 12.5, and a number sent as text *)
Prices ==
    {JAbsent, JNull, JStr(""), JStr("20"), JNum(1975), JNum(1250)}
    \cup {JInt(n) : n \in 0..MaxPrice}

PriceRecords ==
    {Obj(<< <<"id", JInt(1)>>,
            <<"default_offer", Obj(<< <<"old_price", o>>, <<"retail_price", r>> >>)>> >>) :
        o \in Prices, r \in Prices}

Offers ==
    {JAbsent, JNull, EmptyDict,
     Obj(<< <<"seller", JNull>>, <<"old_price", JInt(20)>>, <<"retail_price", JInt(15)>> >>),
     Obj(<< <<"seller", Obj(<< <<"marketing_name", JNull>>, <<"rating", JInt(4)>> >>)>> >>),
     Obj(<< <<"uuid", JStr("u-1")>>,
            <<"seller", Obj(<< <<"marketing_name", Obj(<< <<"name", JStr("Shop")>>, <<"id", JInt(3)>> >>)>>,
                               <<"logo", Obj(<< <<"thumbnail", JStr("t.png")>> >>)>> >>)>> >>)}

ShapeRecords ==
    {Obj(<< <<"id", id>>, <<"name", name>>, <<"default_offer", offer>>,
            <<"category", category>>, <<"ratings", ratings>>,
            <<"main_img", main_img>>, <<"product_labels", labels>> >>) :
        id \in {JAbsent, JNull, JInt(7)},
        name \in {JAbsent, JStr(""), JStr("Tea")},
        offer \in Offers,
        category \in {JAbsent, JNull, Obj(<< <<"name", JStr("Drinks")>>, <<"id", JInt(5)>> >>)},
        ratings \in {JAbsent, JNull, Obj(<< <<"rating_value", JNum(450)>> >>)},
        main_img \in {JAbsent, JNull},
        labels \in {JAbsent, JNull, EmptyList}}

(* one label: a bare string, an object with a name, with an id only, with
   neither, with a null name, or a number *)
Labels ==
    {JStr("new"), JInt(5), EmptyDict,
     Obj(<< <<"name", JStr("Sale")>>, <<"id", JInt(3)>> >>),
     Obj(<< <<"id", JInt(3)>> >>),
     Obj(<< <<"name", JNull>>, <<"id", JInt(3)>> >>)}

LabelLists == {JList(l) : l \in UNION {[1..n -> Labels] : n \in 0..MaxLabels}}

RawRecords == PriceRecords \cup ShapeRecords

NoFlatProbe == [rec |-> EmptyDict, applied |-> FALSE, out |-> Raised]

InitFlatten ==
    /\ InitRun
    /\ catalog = 0
    /\ probe \in {[NoFlatProbe EXCEPT !.rec = r] : r \in RawRecords}

ApplyFlatten ==
    /\ ~probe.applied
    /\ probe' = [probe EXCEPT !.applied = TRUE, !.out = flatten_product(probe.rec)]
    /\ UNCHANGED runvars

SpecFlatten == InitFlatten /\ [][ApplyFlatten]_vars

(* The label fields on their own: the holder is a product (key
   product_labels) or a default_offer (key product_offer_labels) with the
   list or without the key *)
LabelKeys == {"product_labels", "product_offer_labels"}

InitLabels ==
    /\ InitRun
    /\ catalog = 0
    /\ probe \in {[key |-> k, holder |-> Obj(<< <<k, l>> >>), applied |-> FALSE,
                   count |-> -1, text |-> ""] :
                     k \in LabelKeys, l \in LabelLists \cup {JAbsent}}

(* lines 195-198: len(holder.get(key, [])) and
   self._format_labels(holder.get(key, [])) *)
ApplyLabels ==
    /\ ~probe.applied
    /\ LET labels == Get(probe.holder, probe.key, EmptyList)
       IN  probe' = [probe EXCEPT !.applied = TRUE,
                                  !.count = PyLen(labels),
                                  !.text = _format_labels(labels)]
    /\ UNCHANGED runvars

SpecLabels == InitLabels /\ [][ApplyLabels]_vars

---------------------------------------------------------------------------
(* Vocabulary of the properties *)

Later == 2..MaxPages

(* a request for the page has been issued *)
Started(p) == st[p] \notin {"idle", "waiting"}

(* requests issued so far by the page's running fetch_page call *)
Requests(p) == IF st[p] \in {"request", "sleep"} THEN attempt[p] + 1 ELSE 0

(* the step on which the page's fetch_page returns a terminal failure *)
FailsForGood(p) == st[p] = "request" /\ st'[p] = "returned" /\ result'[p] = None

(* the page's fetch_page call has returned *)
Returned(p) == st[p] \in {"returned", "done"}

(* fetch_page calls of the coordinator that are between their first
   request and their return *)
InFlight == {p \in Later : st[p] \in {"request", "sleep"}}

(* workers inside `async with semaphore`: fetching or in the pacing delay *)
Holding == {p \in Later : st[p] \in {"request", "sleep", "returned"}}

(* a worker moves only along its own path: wait, request, retry delay,
   return, release *)
OwnProgress(p) ==
    \/ st'[p] = st[p]
    \/ st[p] = "idle" /\ st'[p] = "waiting"
    \/ st[p] = "waiting" /\ st'[p] = "request"
    \/ st[p] = "request" /\ st'[p] \in {"sleep", "returned"}
    \/ st[p] = "sleep" /\ st'[p] = "request"
    \/ st[p] = "returned" /\ st'[p] = "done"

(* the records a page's response carried; none when the fetch failed *)
PageItems(p) == IF result[p] = None THEN <<>> ELSE result[p].products.items

(* the orders in which the pages of S can follow one another *)
Orders(S) ==
    {f \in [1..Cardinality(S) -> S] : \A i, j \in DOMAIN f : f[i] = f[j] => i = j}

(* the pages' records one page after the other, in the given order *)
RECURSIVE Blocks(_, _)
Blocks(order, i) ==
    IF i > Len(order) THEN <<>> ELSE PageItems(order[i]) \o Blocks(order, i + 1)

RECURSIVE SumItems(_)
SumItems(S) ==
    IF S = {} THEN 0
    ELSE LET p == CHOOSE q \in S : TRUE IN Len(PageItems(p)) + SumItems(S \ {p})

IsPrefix(s, t) == Len(s) <= Len(t) /\ SubSeq(t, 1, Len(s)) = s

(* the fetch phase ran to its end (no early return, no exception) *)
FetchPhaseOver == pc \in {"scraped", "verify", "done"} /\ total_pages # 0

(* the coordinator has taken over from the planner *)
Coordinating == pc = "gather" \/ FetchPhaseOver

(* meta.total cannot be read from a fetched page 1 *)
TotalUnreadable(d) ==
    d # None /\ (d.meta.kind \in {"absent", "null"} \/ d.meta.total.kind \in {"absent", "null"})

NoLaterPageTouched == \A p \in Later : ~Started(p) /\ calls[p] = 0

(* least n with n * P >= T *)
Ceil(T, P) == CHOOSE n \in 0..T : n * P >= T /\ (n = 0 \/ (n - 1) * P < T)

---------------------------------------------------------------------------
(* C1: at every instant the number of page fetches of pages 2..N that are
   in flight is at most the concurrency limit passed to scrape_all_pages;
   the free slots and the workers holding one always add up to the limit. *)
C1_ConcurrencyCap ==
    /\ Cardinality(InFlight) <= max_concurrent
    /\ pc = "gather" =>
          /\ semaphore >= 0
          /\ Cardinality(Holding) + semaphore = max_concurrent

(* the cap binds: as many fetches in flight as the limit allows while
   another worker waits for a slot *)
C1_Witness ==
    /\ pc = "gather"
    /\ Cardinality(InFlight) = max_concurrent
    /\ \E p \in Later : st[p] = "waiting"

(* C2: the fetch of a page of 2..N returns a terminal failure on the
   failure of its request number `retries`, never earlier, and no fetch
   issues more than `retries` requests; a page that failed adds no record
   to the aggregate, and when the fetch phase is over every other scheduled
   page has been fetched to its end. *)
C2_FailedPageExhaustsRetries ==
    /\ [](\A p \in Later : Requests(p) <= retries)
    /\ [][\A p \in Later : FailsForGood(p) => Requests(p) = retries]_vars
    /\ [](\A p \in Later :
            (FetchPhaseOver /\ p <= total_pages /\ result[p] = None) =>
                /\ Len(all_products) =
                      Len(PageItems(1)) + SumItems(PagesToFetch(total_pages) \ {p})
                /\ \A q \in PagesToFetch(total_pages) : st[q] = "done")

(* one page failed for good, another page of the same run delivered records *)
C2_Witness ==
    /\ FetchPhaseOver
    /\ \E p, q \in PagesToFetch(total_pages) :
          /\ result[p] = None
          /\ result[q] # None /\ Len(PageItems(q)) > 0
          /\ Len(all_products) = Len(PageItems(1)) + Len(PageItems(q))

(* C3: once scrape_all_pages has gone past gather, every scheduled page has
   finished its fetch and its worker has released its slot, whether or not
   some page ended in terminal failure; until then every worker only moves
   along its own path, and a fetch ends only with a response or with the
   failure of its last attempt. *)
C3_ReturnsAfterAllFetches ==
    /\ [](FetchPhaseOver =>
            /\ \A p \in PagesToFetch(total_pages) : st[p] = "done" /\ attempt[p] = 0
            /\ semaphore = max_concurrent)
    /\ [][\A p \in Later :
            /\ OwnProgress(p)
            /\ (st[p] = "request" /\ st'[p] = "returned") =>
                   result'[p] # None \/ Requests(p) = retries]_vars

(* the first scheduled page failed for good and a later one still succeeded *)
C3_Witness ==
    /\ pc = "scraped"
    /\ total_pages >= 3
    /\ result[2] = None
    /\ result[3] # None /\ Len(PageItems(3)) > 0

(* C4: when the fetch phase is over the aggregate is page 1's records and
   the records of each successful page of 2..N, every response's records
   taken once and whole (in some order of the pages); its size is the sum
   of those pages' item counts and the export writes that many rows. *)
C4_AggregateIsSumOfPages ==
    FetchPhaseOver =>
        /\ \E order \in Orders(PagesToFetch(total_pages)) :
              all_products = PageItems(1) \o Blocks(order, 1)
        /\ Len(all_products) = Len(PageItems(1)) + SumItems(PagesToFetch(total_pages))
        /\ (pc = "done" /\ all_products # <<>>) =>
              csvfile.exists /\ Len(csvfile.rows) = Len(all_products)

(* no page failed: every item of a catalogue of three pages is exported *)
C4_Witness ==
    /\ pc = "done"
    /\ total_pages = 3
    /\ \A p \in 1..3 : result[p] # None /\ PageItems(p) = Slice(p, catalog, 0)
    /\ Len(csvfile.rows) = catalog

(* C5: a request for a page of 2..N is issued only after page 1's fetch has
   returned, total_pages has been computed from its meta.total, and page
   1's records are in the aggregate. *)
C5_PlanningBeforeFanOut ==
    \A p \in Later :
        Started(p) =>
            /\ st[1] = "done"
            /\ result[1] # None
            /\ ~TotalUnreadable(result[1])
            /\ total_pages = Ceil(result[1].meta.total.val, per_page)
            /\ p <= total_pages
            /\ IsPrefix(PageItems(1), all_products)

(* a later page's first request is out and page 1 gave records *)
C5_Witness ==
    /\ pc = "gather"
    /\ \E p \in Later : st[p] = "request" /\ Requests(p) = 1
    /\ Len(PageItems(1)) > 0
    /\ all_products = PageItems(1)

(* C6: if the fetch of page 1 ended in terminal failure, the coordinator
   never starts: no page >= 2 is called or requested, and the aggregate
   stays empty. *)
C6_FirstPageFailureIsFatal ==
    (Returned(1) /\ result[1] = None) =>
        /\ NoLaterPageTouched
        /\ all_products = <<>>
        /\ ~Coordinating

(* page 1 failed for good and main has run to its end *)
C6_Witness ==
    /\ pc = "done"
    /\ st[1] = "done" /\ result[1] = None
    /\ catalog > per_page

(* C7: if page 1 was fetched but meta.total cannot be read from it, the run
   is aborted: no page of 2..N is called or requested, the coordinator never
   starts, and nothing is kept in the aggregate, page 1's products
   included. *)
C7_UnreadableTotalIsFatal ==
    (Returned(1) /\ TotalUnreadable(result[1])) =>
        /\ NoLaterPageTouched
        /\ all_products = <<>>
        /\ ~Coordinating
        /\ pc \in {"fetch_first", "check_total", "returned_early", "crashed", "done"}

(* page 1 came with products but without a readable total, and the run is
   over: by the early return (total absent) *)
C7_Witness ==
    /\ pc = "done"
    /\ result[1] # None
    /\ result[1].meta.kind = "dict" /\ result[1].meta.total.kind = "absent"
    /\ Len(PageItems(1)) > 0
    /\ all_products = <<>>

(* C8: once planning has succeeded the run reaches the call of save_to_csv,
   whichever pages of 2..N fail; and the run leaves scrape_all_pages early
   only on the planning fault. *)
C8_BestEffortReachesExport ==
    /\ (pc = "gather") ~> (pc = "done")
    /\ [](pc \in {"returned_early", "crashed"} =>
            /\ NoLaterPageTouched
            /\ \/ result[1] = None
               \/ TotalUnreadable(result[1])
               \/ result[1].meta.total.val = 0)

(* every page of 2..N failed for good and the export step was still reached *)
C8_Witness ==
    /\ pc = "done"
    /\ total_pages = MaxPages
    /\ \A p \in PagesToFetch(total_pages) : result[p] = None

(* C9: the page count computed is the ceiling of total / page size, for
   every total >= 0 and page size > 0; 100 items at 24 per page are 5
   pages. *)
C9_TotalPagesIsCeiling ==
    probe.ret # -1 =>
        /\ probe.ret = Ceil(probe.T, probe.P)
        /\ (probe.T = 100 /\ probe.P = 24) => probe.ret = 5

(* the computation applied to 100 items at 24 per page *)
C9_Witness == probe = [T |-> 100, P |-> 24, ret |-> 5]

(* C10: page 1 is fetched once, by the planner, and its records open the
   aggregate; the coordinator calls fetch_page exactly once for each page
   of 2..N and never for page 1 or for a page beyond N. *)
C10_EachPageScheduledOnce ==
    /\ calls[1] <= 1
    /\ Coordinating =>
          /\ calls[1] = 1
          /\ st[1] = "done"
          /\ \A p \in Later :
                /\ p <= total_pages => calls[p] = 1
                /\ p > total_pages => calls[p] = 0 /\ st[p] = "idle"
          /\ IsPrefix(PageItems(1), all_products)

(* a run of two pages in a model of three: page 2 scheduled, page 3 not *)
C10_Witness ==
    /\ FetchPhaseOver
    /\ total_pages = 2
    /\ calls = [p \in Pages |-> IF p <= 2 THEN 1 ELSE 0]
    /\ Len(PageItems(1)) > 0

---------------------------------------------------------------------------
(* C11: after every export that wrote a file, the verifier has re-read it
   and its verdict is success exactly when the number of data rows in the
   file equals the number of records in memory; a file whose row count
   differs, such as one cut short after the write, gets the mismatch
   verdict and never success. *)
C11_VerifierIsTruthful ==
    /\ csvfile.exists => pc \in {"verify", "done"}
    /\ (pc = "done" /\ csvfile.exists) =>
          /\ integrity \in {"ok", "mismatch"}
          /\ integrity = "ok" <=> Len(csvfile.rows) = Len(all_products)

(* a file that lost its last row was re-read and reported as a mismatch *)
C11_Witness ==
    /\ pc = "done"
    /\ csvfile.header # <<>>
    /\ Len(all_products) > 1
    /\ Len(csvfile.rows) = Len(all_products) - 1
    /\ integrity = "mismatch"

(* C12: the step that finds a row-count mismatch only reports it: the file
   stays exactly as it was found, the records in memory are the same, and
   the run is at its normal end, not crashed. *)
C12_MismatchOnlyReported ==
    /\ [][(pc = "verify" /\ integrity' = "mismatch") =>
             /\ csvfile' = csvfile
             /\ all_products' = all_products
             /\ pc' = "done"]_vars
    /\ [](integrity = "mismatch" => pc = "done" /\ csvfile.exists)

(* a mismatch was reported on a file cut down to its header, and the file
   and the records are still there at the end of the run *)
C12_Witness ==
    /\ pc = "done"
    /\ integrity = "mismatch"
    /\ csvfile.exists
    /\ csvfile.header # <<>>
    /\ csvfile.rows = <<>>
    /\ all_products # <<>>

---------------------------------------------------------------------------
(* the flattened records in the opposite order of aggregation *)
ReversedFlats ==
    [i \in 1..Len(all_products) |->
        flatten_product(all_products[Len(all_products) + 1 - i]).flat]

(* C13: the file written by the export has a header that is the union of
   the field names of all flattened records in strictly increasing
   lexicographic order, then one row per record, in aggregate order, with
   the record's values in header order; the same records aggregated in the
   opposite order give the same header. *)
C13_SortedHeaderOneRowPerRecord ==
    (pc \in {"verify", "done"} /\ csvfile.exists) =>
        LET header == csvfile.header
        IN  /\ \A j \in 1..(Len(header) - 1) :
                   LexLess(Spelling[header[j]], Spelling[header[j + 1]])
            /\ Len(csvfile.rows) = Len(all_products)
            /\ \A i \in 1..Len(all_products) :
                   LET flat == flatten_product(all_products[i]).flat
                   IN  /\ DOMAIN flat \subseteq {header[j] : j \in 1..Len(header)}
                       /\ Len(csvfile.rows[i]) = Len(header)
                       /\ \A j \in 1..Len(header) :
                              /\ header[j] \in DOMAIN flat
                              /\ csvfile.rows[i][j] = CsvCell(flat[header[j]])
            /\ WriteCsv(ReversedFlats).header = header

(* two pages were exported: 41 columns from avail_check to
   stock_qty_threshold, and row 25 carries product id 25 in the
   product_id column *)
C13_Witness ==
    /\ pc = "done"
    /\ Len(csvfile.rows) = per_page + 1
    /\ Len(csvfile.header) = 41
    /\ csvfile.header[1] = "avail_check"
    /\ csvfile.header[24] = "product_id"
    /\ csvfile.header[41] = "stock_qty_threshold"
    /\ csvfile.rows[per_page + 1][24] = "25"
    /\ csvfile.rows[1][16] = "1"

---------------------------------------------------------------------------
(* the prices of the record under test as the default-0 lookup resolves
   them, in hundredths *)
OldPrice == Cents(safe_get(Get(probe.rec, "default_offer", EmptyDict), <<"old_price">>, JInt(0)))
RetailPrice == Cents(safe_get(Get(probe.rec, "default_offer", EmptyDict), <<"retail_price">>, JInt(0)))

Abs(n) == IF n < 0 THEN 0 - n ELSE n

(* the three derived fields of the returned record are the stated
   functions of the two prices; the percentage, in hundredths of a
   percent, is a nearest one to (old - retail) / old * 100 *)
DiscountFieldsAsStated ==
    LET flat == probe.out.flat
    IN  /\ flat.has_discount = JBool(OldPrice > RetailPrice)
        /\ Cents(flat.discount_amount) = OldPrice - RetailPrice
        /\ IF OldPrice > 0
           THEN 2 * Abs(flat.discount_percentage.val * OldPrice
                        - (OldPrice - RetailPrice) * 10000) <= OldPrice
           ELSE flat.discount_percentage = JInt(0)

(* C14: the record flatten returns has the fixed field set, and no field of
   it is absent or null. *)
C14_NoFieldAbsentOrNull ==
    (probe.applied /\ ~probe.out.raised) =>
        /\ DOMAIN probe.out.flat = DOMAIN Spelling
        /\ \A f \in DOMAIN Spelling : probe.out.flat[f].kind \notin {"absent", "null"}

(* C15: flatten returns a record for every raw record, whatever is
   missing, null or of an unexpected type in it. *)
C15_FlattenNeverFails == probe.applied => ~probe.out.raised

(* C16: for every raw record flatten returns a record whose has_discount,
   discount_amount and discount_percentage are the stated functions of
   old_price and retail_price, each resolved with default 0. *)
C16_DiscountFieldsForEveryRecord ==
    probe.applied => (~probe.out.raised /\ DiscountFieldsAsStated)

(* C17, as stated: a record without a discount has a discount_amount and
   a discount_percentage that are not negative. *)
C17_NoDiscountNotNegative ==
    (probe.applied /\ ~probe.out.raised /\ ~probe.out.flat.has_discount.val) =>
        /\ Cents(probe.out.flat.discount_amount) >= 0
        /\ Cents(probe.out.flat.discount_percentage) >= 0

(* C17, amended: a record without a discount has a discount_amount equal
   to old_price - retail_price and a discount_percentage that are both
   zero or negative, and the percentage is exactly 0 when old_price is 0
   or absent. *)
C17_NoDiscountNotPositive ==
    (probe.applied /\ ~probe.out.raised /\ ~probe.out.flat.has_discount.val) =>
        /\ Cents(probe.out.flat.discount_amount) = OldPrice - RetailPrice
        /\ Cents(probe.out.flat.discount_amount) <= 0
        /\ Cents(probe.out.flat.discount_percentage) <= 0
        /\ OldPrice = 0 => probe.out.flat.discount_percentage = JInt(0)

(* old_price 10 under retail_price 15: no discount, amount -5 and
   percentage -50.00 *)
C17_Witness ==
    /\ probe.applied
    /\ ~probe.out.raised
    /\ probe.out.flat.old_price = JInt(10)
    /\ probe.out.flat.retail_price = JInt(15)
    /\ probe.out.flat.has_discount = JBool(FALSE)
    /\ probe.out.flat.discount_amount = JInt(-5)
    /\ probe.out.flat.discount_percentage = JNum(-5000)

(* the text one label contributes: the name of an object that has one,
   else its id, else the string form of the label itself *)
ElementText(label) ==
    IF label.kind = "dict" /\ "name" \in DOMAIN label.val THEN PyStr(label.val["name"])
    ELSE IF label.kind = "dict" /\ "id" \in DOMAIN label.val THEN PyStr(label.val["id"])
    ELSE PyStr(label)

(* the list under test, empty when the holder has no such key *)
ProbedLabels ==
    IF probe.key \in DOMAIN probe.holder.val THEN probe.holder.val[probe.key].val ELSE <<>>

(* C18: the display string of a label list is the ", "-join of one text
   per element, "N/A" for an empty or absent list, and the count is the
   length of the list, 0 when absent. *)
C18_LabelTextAndCount ==
    probe.applied =>
        /\ probe.count = Len(ProbedLabels)
        /\ IF ProbedLabels = <<>>
           THEN probe.text = "N/A"
           ELSE probe.text = Join([i \in 1..Len(ProbedLabels) |-> ElementText(ProbedLabels[i])])

(* a product_labels list of an object named Sale and an object with id 3
   only: count 2, text "Sale, 3" *)
C18_Witness ==
    /\ probe.applied
    /\ probe.key = "product_labels"
    /\ Len(ProbedLabels) = 2
    /\ probe.count = 2
    /\ probe.text = "Sale, 3"

---------------------------------------------------------------------------
(* how many records of a list of raw records carry the id *)
Copies(id, records) ==
    Cardinality({k \in 1..Len(records) : records[k].val["id"] = JInt(id)})

(* how many copies of the id the run received: on page 1 and on every
   later page that was fetched *)
RECURSIVE Received(_, _)
Received(id, p) ==
    IF p > total_pages THEN 0 ELSE Copies(id, PageItems(p)) + Received(id, p + 1)

(* the ids at the end of a full page: a later page read one position
   early repeats the one before it *)
BoundaryIds == {p * per_page : p \in 1..(MaxPages - 1)}

(* the column of product_id in the sorted header *)
IdColumn == CHOOSE j \in 1..Len(csvfile.header) : csvfile.header[j] = "product_id"

(* C19: an id that two pages returned is in the aggregate as many times
   as it was received, each copy has its own row in the export, and the
   export has one row per record received, not one per distinct id. *)
C19_NoDeduplication ==
    /\ FetchPhaseOver =>
          \A d \in BoundaryIds : Copies(d, all_products) = Received(d, 1)
    /\ (FetchPhaseOver /\ csvfile.exists) =>
          /\ Len(csvfile.rows) = Len(all_products)
          /\ \A d \in BoundaryIds :
                Cardinality({k \in 1..Len(csvfile.rows) :
                                csvfile.rows[k][IdColumn] = ToString(d)})
                    = Received(d, 1)

(* id 24 came last on page 1 and again first on page 2: two records and
   two rows carry it, and the rows outnumber the distinct ids *)
C19_Witness ==
    /\ pc = "done"
    /\ csvfile.exists
    /\ Copies(per_page, PageItems(1)) = 1
    /\ Copies(per_page, PageItems(2)) = 1
    /\ Copies(per_page, all_products) = 2
    /\ Cardinality({k \in 1..Len(csvfile.rows) : csvfile.rows[k][IdColumn] = "24"}) = 2
    /\ Cardinality({all_products[k] : k \in 1..Len(all_products)}) < Len(csvfile.rows)

(* the records of page p stand in the aggregate as one unbroken block *)
InOneBlock(p) ==
    \E k \in 0..(Len(all_products) - Len(PageItems(p))) :
        SubSeq(all_products, k + 1, k + Len(PageItems(p))) = PageItems(p)

(* C20: the aggregate only changes by the coordinator appending to it, in
   a step during which no worker is running, so no two additions overlap;
   nothing already in it is lost or overwritten, and after the fetch phase
   the records of every fetched page stand in it as one unbroken block. *)
C20_AdditionsAreAtomic ==
    /\ [][all_products' # all_products =>
             /\ IsPrefix(all_products, all_products')
             /\ pc \in {"check_total", "gather"} /\ pc' # pc
             /\ InFlight = {} /\ Holding = {}]_vars
    /\ [](FetchPhaseOver =>
             /\ \A p \in 1..total_pages : InOneBlock(p)
             /\ Len(all_products) = SumItems(1..total_pages))

(* two workers ran at once, all three pages came back, and the aggregate
   holds the three pages *)
C20_Witness ==
    /\ pc = "scraped"
    /\ max_concurrent = 2
    /\ total_pages = 3
    /\ \A p \in 1..3 : Len(PageItems(p)) = per_page
    /\ Len(all_products) = 3 * per_page

---------------------------------------------------------------------------
(* main has run to its end: by returning or by an exception *)
RunOver == pc \in {"done", "crashed"}

(* C21: if every request attempt ends, every run ends, and from then on
   no worker is waiting for the semaphore or holding it. A worker leaves
   the wait only by acquiring a slot; a run that is over either failed at
   planning, before any worker existed, or every worker has released its
   slot, all slots are free and the aggregate has been exported. *)
C21_EveryRunTerminates ==
    /\ <>[](RunOver /\ \A p \in Later : st[p] \in {"idle", "done"})
    /\ [][\A p \in Later :
            (st[p] = "waiting" /\ st'[p] # "waiting") =>
                st'[p] = "request" /\ semaphore' = semaphore - 1]_vars
    /\ [](RunOver =>
            \/ total_pages = 0 /\ NoLaterPageTouched
            \/ /\ \A p \in PagesToFetch(total_pages) : st[p] = "done"
               /\ semaphore = max_concurrent
               /\ all_products = <<>> \/ (csvfile.exists /\ integrity # "none"))

(* one slot only: every worker but the first had to wait for the
   semaphore, and the run still exported all three pages *)
C21_Witness ==
    /\ pc = "done"
    /\ max_concurrent = 1
    /\ semaphore = 1
    /\ total_pages = MaxPages
    /\ csvfile.exists
    /\ integrity # "none"

---------------------------------------------------------------------------
(* fetch_page run twice side by side on two sequences of attempt outcomes.
   One call: its position, its loop variable, what it returns, the requests
   and sleeps it has made in order, the lines it has printed and what its
   requests ended in. *)
NewFetch ==
    [st |-> "request", attempt |-> 0, result |-> None,
     events |-> <<"get">>, log |-> <<>>, seen |-> <<>>]

(* lines 35-57: one attempt ends *)
AfterResponse(f, o) ==
    IF AttemptSucceeds(o)
    THEN [f EXCEPT !.st = "returned", !.result = o.data,
                   !.log = Append(@, "fetched"), !.seen = Append(@, o)]
    ELSE IF RetryAfter(o, f.attempt)
         THEN [f EXCEPT !.st = "sleep", !.events = Append(@, "sleep"),
                        !.log = Append(@, Handler(o)), !.seen = Append(@, o)]
         ELSE [f EXCEPT !.st = "returned", !.result = None,
                        !.log = Append(@, Handler(o)), !.seen = Append(@, o)]

(* asyncio.sleep(2) is over, `continue`, next session.get *)
AfterSleep(f) ==
    [f EXCEPT !.st = "request", !.attempt = @ + 1, !.events = Append(@, "get")]

(* two outcomes that differ at most in the kind of fault *)
SameButFaultKind(oa, ob) ==
    IF AttemptSucceeds(oa) \/ AttemptSucceeds(ob) THEN oa = ob ELSE TRUE

(* what an attempt at a later page can end in; its body may carry a meta
   and still no products *)
ProbedOutcomes ==
    Outcomes(2)
    \cup {[kind |-> "ok", data |-> Body(MetaDict(JInt(catalog)), ProductsAbsent)]}

InitRetry ==
    /\ InitRun
    /\ catalog = per_page + 1
    /\ probe = [left |-> NewFetch, right |-> NewFetch]

PairRespond ==
    /\ probe.left.st = "request"
    /\ probe.right.st = "request"
    /\ \E oa, ob \in ProbedOutcomes :
          /\ SameButFaultKind(oa, ob)
          /\ probe' = [left |-> AfterResponse(probe.left, oa),
                       right |-> AfterResponse(probe.right, ob)]
    /\ UNCHANGED runvars

PairWake ==
    /\ probe.left.st = "sleep"
    /\ probe.right.st = "sleep"
    /\ probe' = [left |-> AfterSleep(probe.left),
                 right |-> AfterSleep(probe.right)]
    /\ UNCHANGED runvars

SpecRetry == InitRetry /\ [][PairRespond \/ PairWake]_vars

(* C22: two fetch_page calls whose attempt outcomes differ only in the
   kind of fault of their failed attempts make the same number of attempts,
   sleep at the same places and return the same result. *)
C22_FaultKindDoesNotMatter ==
    /\ probe.left.st = probe.right.st
    /\ probe.left.attempt = probe.right.attempt
    /\ probe.left.events = probe.right.events
    /\ probe.left.result = probe.right.result

(* three bad statuses on one side; a timeout, a transport fault and a
   timeout on the other: both gave up after three requests and two sleeps *)
C22_Witness ==
    /\ probe.left.st = "returned"
    /\ probe.left.log = <<"status", "status", "status">>
    /\ probe.right.log = <<"timeout", "exception", "timeout">>
    /\ probe.left.events = <<"get", "sleep", "get", "sleep", "get">>
    /\ probe.right.result = None

---------------------------------------------------------------------------
(* C23: every worker makes one pacing delay: it starts when the worker's
   own fetch_page returns, with data or with a terminal failure, the
   worker is done only by coming out of it and never paces again; the
   delay of a worker ends whatever the other workers are doing. *)
C23_OnePacingDelayPerWorker ==
    /\ [][\A p \in Later :
            /\ (st[p] = "request" /\ st'[p] \notin {"request", "sleep"}) =>
                   st'[p] = "returned"
            /\ (st[p] # "returned" /\ st'[p] = "returned") => st[p] = "request"
            /\ (st[p] # "done" /\ st'[p] = "done") => st[p] = "returned"
            /\ st[p] = "done" => st'[p] = "done"]_vars
    /\ [](\A p \in Later :
            (pc = "gather" /\ st[p] = "returned") => ENABLED PaceDone(p))
    /\ [](FetchPhaseOver => \A p \in PagesToFetch(total_pages) : st[p] = "done")

(* page 3 failed for good, paced and released its slot while page 2 is
   still being fetched *)
C23_Witness ==
    /\ pc = "gather"
    /\ st[3] = "done" /\ result[3] = None
    /\ st[2] \in {"request", "sleep"}

---------------------------------------------------------------------------
(* The instance after main's call of save_to_csv: a caller exports it
   again, up to MaxAgain times *)
MaxAgain == 2

InitAgain == InitRun /\ probe = [again |-> 0]

SaveAgain ==
    /\ pc = "done"
    /\ probe.again < MaxAgain
    /\ pc' = IF total_pages = 0 THEN "returned_early" ELSE "scraped"
    /\ probe' = [again |-> probe.again + 1]
    /\ UNCHANGED <<catalog, max_concurrent, semaphore, total_pages,
                   first_page_data, all_products, st, attempt, result,
                   calls, csvfile, integrity>>

SpecAgain == InitAgain /\ [][Next \/ SaveAgain]_vars

(* scrape_all_pages has returned, by its end or by line 79 *)
CoordinatorReturned == pc \in {"scraped", "returned_early", "verify", "done"}

(* C24: after scrape_all_pages has returned no step changes the aggregate:
   save_to_csv and verify_data_integrity leave its records, their number
   and their order as they were, on every call. *)
C24_AggregateFrozenAfterFetch ==
    [][CoordinatorReturned => all_products' = all_products]_vars

(* exported three times: the aggregate is still the three pages in order *)
C24_Witness ==
    /\ pc = "done"
    /\ probe.again = MaxAgain
    /\ catalog = MaxPages * per_page
    /\ all_products = Slice(1, catalog, 0) \o Slice(2, catalog, 0) \o Slice(3, catalog, 0)
    /\ Len(csvfile.rows) = Len(all_products)
    /\ integrity # "none"

---------------------------------------------------------------------------
(* safe_get on its own, over trees of two levels and paths of one key or
   more *)
MaxPath == 2

PathKeys == {"a", "b"}

Leaves == {JNull, JStr(""), JStr("x"), JInt(0), JBool(FALSE), EmptyList, EmptyDict}

Level1 == Leaves \cup {JDict(k :> v) : k \in PathKeys, v \in Leaves}

Trees ==
    Level1
    \cup {JDict(k :> v) : k \in PathKeys, v \in Level1}
    \cup {JDict(("a" :> v) @@ ("b" :> w)) : v \in Level1, w \in Leaves}

Paths == UNION {[1..n -> PathKeys] : n \in 1..MaxPath}

Defaults == {JStr(""), NA, JNull}

InitSafeGet ==
    /\ InitRun
    /\ catalog = 0
    /\ probe \in [obj : Trees, keys : Paths, default : Defaults,
                  applied : {FALSE}, out : {JAbsent}]

ApplySafeGet ==
    /\ ~probe.applied
    /\ probe' = [probe EXCEPT !.applied = TRUE,
                              !.out = safe_get(probe.obj, probe.keys, probe.default)]
    /\ UNCHANGED runvars

SpecSafeGet == InitSafeGet /\ [][ApplySafeGet]_vars

(* the node the first i keys of the path lead to; absent when there is
   none *)
RECURSIVE NodeAt(_, _, _)
NodeAt(obj, keys, i) ==
    IF i = 0 THEN obj
    ELSE LET n == NodeAt(obj, keys, i - 1)
         IN  IF n.kind = "dict" /\ keys[i] \in DOMAIN n.val THEN n.val[keys[i]]
             ELSE JAbsent

(* some key of the path is looked up in a value that is not a dict, or
   leads to nothing, or leads to null *)
PathBroken(obj, keys) ==
    \E i \in 1..Len(keys) :
        \/ NodeAt(obj, keys, i - 1).kind # "dict"
        \/ NodeAt(obj, keys, i).kind \in {"absent", "null"}

(* C25: safe_get returns the default whenever a node of the path is
   missing, is not a dict or is null, and it never raises, on every tree
   and every path; on a path that resolves it returns the value found
   (the default for ''). *)
C25_SafeGetDefaultsAndNeverRaises ==
    probe.applied =>
        /\ probe.out.kind # "raise"
        /\ PathBroken(probe.obj, probe.keys) => probe.out = probe.default
        /\ ~PathBroken(probe.obj, probe.keys) =>
              LET leaf == NodeAt(probe.obj, probe.keys, Len(probe.keys))
              IN  probe.out = IF leaf = JStr("") THEN probe.default ELSE leaf

(* second key looked up in a list: the default came back *)
C25_Witness ==
    /\ probe.applied
    /\ probe.obj = JDict("a" :> EmptyList)
    /\ probe.keys = <<"a", "b">>
    /\ probe.default = NA
    /\ probe.out = NA

---------------------------------------------------------------------------
(* C26: when the fetch phase is over the aggregate is the records of page
   1, then those of pages 2..N in ascending page number, each page's in
   the order of its payload and a failed page's left out, whichever
   worker finished first. *)
C26_AggregateInPageOrder ==
    FetchPhaseOver =>
        all_products = Blocks([i \in 1..total_pages |-> i], 1)

(* three pages fetched with one slot, the workers admitted in either
   order: the aggregate runs from the first item to the last *)
C26_Witness ==
    /\ pc = "scraped"
    /\ max_concurrent = 1
    /\ total_pages = 3
    /\ \A p \in 1..3 : PageItems(p) = Slice(p, catalog, 0) /\ Len(PageItems(p)) > 0
    /\ all_products = [i \in 1..catalog |-> Item(i)]

---------------------------------------------------------------------------
(* asyncio.sleep(2) calls a fetch_page call has made *)
Delays(f) == Len(SelectSeq(f.events, LAMBDA e : e = "sleep"))

(* the attempt got status 200 and a body that response.json() parsed *)
Got200(o) == o.kind = "ok"

(* C27: fetch_page returns the body of the first attempt that gets status
   200 and a parseable body, with no attempt and no sleep after it; it
   sleeps once after each failed attempt but the last, so a success after
   k failures costs k sleeps and `retries` failures cost retries - 1. *)
C27_ReturnsOnFirst200 ==
    LET f == probe.left
        n == Len(f.seen)
    IN  /\ \A i \in 1..n :
              Got200(f.seen[i]) =>
                  /\ i = n
                  /\ f.st = "returned"
                  /\ f.result = f.seen[i].data
                  /\ Delays(f) = i - 1
        /\ f.st = "returned" => f.events[Len(f.events)] = "get"
        /\ (f.st = "returned" /\ f.result = None) =>
              n = retries /\ Delays(f) = retries - 1
        /\ f.st = "sleep" => Delays(f) = n /\ n < retries
        /\ f.st = "request" => Delays(f) = n

---------------------------------------------------------------------------
(* the attempt got status 200 and a body without the products key: the
   empty object, or an object with other keys *)
LacksProducts(o) == o.kind = "ok" /\ o.data.products.kind = "absent"

EmptyBody == Body(MetaAbsent, ProductsAbsent)

(* C28: an attempt at a later page that gets status 200 and a body without
   the products key (the empty object included) ends the fetch with that
   body: no retry and no sleep follow, the line printed is the success
   line, and the collection loop adds no record for it. *)
C28_MissingProductsIsSuccess ==
    LET f == probe.left
        n == Len(f.seen)
    IN  \A i \in 1..n :
            LacksProducts(f.seen[i]) =>
                /\ i = n
                /\ f.st = "returned"
                /\ f.result = f.seen[i].data
                /\ f.result # None
                /\ f.log[i] = "fetched"
                /\ Delays(f) = i - 1
                /\ Contribution(f.result) = <<>>
                /\ \A agg \in {<<>>, <<Item(1)>>} :
                       Extend(agg, Contribution(f.result)) = agg

(* a bad status, then 200 with {} : returned at once as fetched *)
C28_Witness ==
    /\ probe.left.st = "returned"
    /\ Len(probe.left.seen) = 2
    /\ probe.left.seen[1].kind = "status"
    /\ probe.left.seen[2] = [kind |-> "ok", data |-> EmptyBody]
    /\ probe.left.result = EmptyBody
    /\ probe.left.log = <<"status", "fetched">>

---------------------------------------------------------------------------
(* The run started where an earlier run may have left its file *)
EarlierFile == WriteCsv(<<FlatOf[Item(0)].flat>>)

InitEarlier ==
    /\ pc = "start"
    /\ catalog \in CatalogSizes
    /\ max_concurrent = 0
    /\ semaphore = 0
    /\ total_pages = 0
    /\ first_page_data = None
    /\ all_products = <<>>
    /\ st = [p \in Pages |-> "idle"]
    /\ attempt = [p \in Pages |-> 0]
    /\ result = [p \in Pages |-> None]
    /\ calls = [p \in Pages |-> 0]
    /\ csvfile \in {NoFile, EarlierFile}
    /\ integrity = "none"
    /\ probe = [earlier |-> csvfile]

SpecEarlier == InitEarlier /\ [][Next]_vars

(* planning failed: scrape_all_pages left at line 79, or get_total_pages
   raised *)
PlanningFailed ==
    /\ total_pages = 0
    /\ pc \in {"returned_early", "crashed", "done"}

(* C29: when planning fails the file is neither created nor written and
   verify_data_integrity does not run: save_to_csv, if reached, returns on
   the empty aggregate, and a file an earlier run left is as it was. *)
C29_PlanningFailureLeavesFile ==
    PlanningFailed =>
        /\ all_products = <<>>
        /\ csvfile = probe.earlier
        /\ integrity = "none"

(* page 1 never answered, main ran to its end, the earlier file is intact *)
C29_Witness ==
    /\ pc = "done"
    /\ total_pages = 0
    /\ result[1] = None /\ st[1] = "done"
    /\ probe.earlier = EarlierFile
    /\ csvfile = EarlierFile

---------------------------------------------------------------------------
(* One scraper instance used for two runs: after main's sequence of
   scrape_all_pages and save_to_csv a caller runs the same sequence on
   the same instance. The catalogue has two pages. *)
InitTwice ==
    /\ InitRun
    /\ catalog = per_page + 1
    /\ probe = [run |-> 1, first |-> <<>>]

(* scrape_all_pages called again: its locals are new, self.all_products is
   the instance's (line 22 runs once); fetch_page(session, 1) is out *)
ScrapeAgain ==
    /\ pc = "done"
    /\ probe.run = 1
    /\ probe' = [run |-> 2, first |-> all_products]
    /\ pc' = "fetch_first"
    /\ total_pages' = 0
    /\ first_page_data' = None
    /\ semaphore' = 0
    /\ st' = [p \in Pages |-> IF p = 1 THEN "request" ELSE "idle"]
    /\ attempt' = [p \in Pages |-> 0]
    /\ result' = [p \in Pages |-> None]
    /\ calls' = [calls EXCEPT ![1] = @ + 1]
    /\ UNCHANGED <<catalog, max_concurrent, all_products, csvfile, integrity>>

SpecTwice == InitTwice /\ [][Next \/ ScrapeAgain]_vars

(* what the pages of the running scrape_all_pages call delivered, in
   page order *)
ThisRun == Blocks([i \in 1..total_pages |-> i], 1)

(* C30: a second scrape_all_pages on the same instance keeps the first
   run's records and puts its own after them; the file then written has
   one row for each record of both runs, and that total is the count
   verify_data_integrity compares the rows with. *)
C30_SecondRunAppends ==
    probe.run = 2 =>
        /\ IsPrefix(probe.first, all_products)
        /\ FetchPhaseOver => all_products = probe.first \o ThisRun
        /\ PlanningFailed => all_products = probe.first
        /\ (pc = "done" /\ all_products # <<>>) =>
              /\ Len(csvfile.rows) = Len(all_products)
              /\ integrity = verify_data_integrity(csvfile, probe.first \o ThisRun)
              /\ integrity = "ok"

(* both runs fetched the whole catalogue: twice its items, in two blocks *)
C30_Witness ==
    /\ probe.run = 2
    /\ pc = "done"
    /\ Len(probe.first) = catalog
    /\ Len(ThisRun) = catalog
    /\ all_products = probe.first \o probe.first
    /\ Len(csvfile.rows) = 2 * catalog
    /\ integrity = "ok"

====
